---- MODULE Spec2Model ----
(***************************************************************************)
(* SLIM BPR (Code/SLIM_BPR_Python.py): BPR sampling, the mini-batch SGD    *)
(* update of the item-item matrix S, the export of the similarity matrix,  *)
(* the column-wise top-K selection and the recommender.                    *)
(*                                                                         *)
(* Conventions.  Users are 0..n_users-1 and items 0..n_items-1, as in the  *)
(* code.  A matrix is a function row -> column -> value.  An entry 0 of    *)
(* URM_train is an interaction that is not stored.  Floating point values  *)
(* are integers counted in the unit learning_rate / (4 * batch_size); see  *)
(* gradientQ.  A Python value that may be a bool or an int is a record     *)
(* [isbool, v], compared as Python compares them (False == 0).             *)
(***************************************************************************)
EXTENDS Integers, Sequences, FiniteSets, TLC

NUsers == 2
NItems == 2
MaxEpochs == 2
MaxBatch == 2
MaxTopK == 2
MaxInteractions == 2
MaxWeight == 2
MaxNonZero == 4

positive_threshold == 3

n_users == NUsers
n_items == NItems
Users == 0..(n_users - 1)
Items == 0..(n_items - 1)

Ratings == {0, positive_threshold - 1, positive_threshold, positive_threshold + 1}

VARIABLES URM_train, sparse_weights, S_type, S, W, W_sparse,
          eligibleUsers, userSeenItems,
          topK, batch_size, epochs, currentEpoch,
          totalNumberOfBatch, numCurrentBatch,
          user_id_list, pos_item_id_list, neg_item_id_list,
          sample_index, neg_item_id,
          pc, error, rec, tk

vars == <<URM_train, sparse_weights, S_type, S, W, W_sparse,
          eligibleUsers, userSeenItems,
          topK, batch_size, epochs, currentEpoch,
          totalNumberOfBatch, numCurrentBatch,
          user_id_list, pos_item_id_list, neg_item_id_list,
          sample_index, neg_item_id,
          pc, error, rec, tk>>

----------------------------------------------------------------------------
(* Python values *)

PyFalse == [isbool |-> TRUE, v |-> 0]
PyInt(n) == [isbool |-> FALSE, v |-> n]
\* x != y and x < n on bool/int values: a bool compares as the int 0 or 1
PyNe(x, y) == x.v # y.v
PyLt(x, n) == x.v < n

TopKValues == {PyFalse} \cup {PyInt(n) : n \in (-1)..MaxTopK}

----------------------------------------------------------------------------
(* Matrices *)

Zeros == [r \in Items |-> [c \in Items |-> 0]]
Transpose(M) == [r \in Items |-> [c \in Items |-> M[c][r]]]

RECURSIVE SumOver(_, _)
SumOver(f, set) ==
    IF set = {} THEN 0
    ELSE LET e == CHOOSE x \in set : TRUE
         IN f[e] + SumOver(f, set \ {e})

Min(a, b) == IF a < b THEN a ELSE b

\* an index assignment that lands on a temporary copy (chained indexing
\* M[rows][:, cols] = v) and leaves M as it was
SetCellsSkipped(M, cells, v) == M

\* numpy index assignment  M[rows, cols] = v  on the cells <<row, col>>
SetCells(M, cells, v) ==
    [r \in Items |-> [c \in Items |-> IF <<r, c>> \in cells THEN v ELSE M[r][c]]]

\* numpy in-place  M[rows, cols] += d : every addressed cell is read once,
\* d is added, the result is written back (a repeated index adds d once)
AddCells(M, cells, d) ==
    [r \in Items |-> [c \in Items |-> IF <<r, c>> \in cells THEN M[r][c] + d ELSE M[r][c]]]

Range(s) == {s[k] : k \in DOMAIN s}

----------------------------------------------------------------------------
(* Interaction store *)

\* URM_train[user_id].indices : the stored interactions of the user
StoredItems(urm, u) == {it \in Items : urm[u][it] # 0}

\* URM_mask (constructor): stored interactions with value >= positive_threshold
URM_mask(urm) ==
    [u \in Users |-> [it \in Items |-> urm[u][it] # 0 /\ urm[u][it] >= positive_threshold]]
MaskItems(urm, u) == {it \in Items : URM_mask(urm)[u][it]}
Nnz(mask) == Cardinality({p \in Users \X Items : mask[p[1]][p[2]]})

\* URM_train.multiply(URM_train > positive_threshold), rows' indices
URM_train_positive(urm, u) == {it \in Items : urm[u][it] > positive_threshold}

URMs == {m \in [Users -> [Items -> Ratings]] :
            Cardinality({p \in Users \X Items : m[p[1]][p[2]] # 0}) <= MaxInteractions}

----------------------------------------------------------------------------
(* similarityMatrixTopK *)

Perms == {p \in [1..n_items -> Items] : \A a, b \in 1..n_items : a # b => p[a] # p[b]}

\* np.argsort of one column: any order of the rows that is ascending by value
\* (the order of equal values is the sort routine's)
ArgSort(col) == {p \in Perms : \A a, b \in 1..n_items : a < b => col[p[a]] <= col[p[b]]}

Column(M, c) == [r \in Items |-> M[r][c]]

\* np.argsort(item_weights, axis=0): one ascending order per column
ArgSortColumns(M) == {idx \in [Items -> Perms] : \A c \in Items : idx[c] \in ArgSort(Column(M, c))}

\* Python slice bounds: number of elements of seq[:-k] for a sequence of length len
PyHeadLen(len, k) ==
    IF k > 0 THEN (IF len - k > 0 THEN len - k ELSE 0) ELSE Min(0 - k, len)

\* dense path, lines 67-77: zero the rows idx_sorted[:-k, :] of every column
TopKDense(M, k0, idx) ==
    LET k == Min(k0, n_items)
        not_top_k == {<<idx[c][a], c>> : c \in Items, a \in 1..PyHeadLen(n_items, k)}
    IN SetCells(M, not_top_k, 0)

\* sparse path, lines 94-121: per column, the non-zero entries sorted by value,
\* the last k of them emitted into the new matrix
TopKSparse(M, k0, idx) ==
    LET k == Min(k0, n_items)
        NonZero(c) == LET Test(r) == M[r][c] # 0 IN SelectSeq(idx[c], Test)
        Kept(c) == LET nz == NonZero(c)
                   IN {nz[a] : a \in (PyHeadLen(Len(nz), k) + 1)..Len(nz)}
    IN [r \in Items |-> [c \in Items |-> IF r \in Kept(c) THEN M[r][c] ELSE 0]]

\* sparse_weights = not isinstance(item_weights, np.ndarray)
similarityMatrixTopK(M, k0, idx, isNdarray) ==
    IF isNdarray THEN TopKDense(M, k0, idx) ELSE TopKSparse(M, k0, idx)

----------------------------------------------------------------------------
(* Update rule *)

\* the quotient taken as an integer division, 1 // (1 + exp(x_uij))
gradientZero(x) == 0

\* gradient = 1 / (1 + exp(x_uij)), in quarters: a value in (0, 1) that
\* decreases with x_uij and is 1/2 at x_uij = 0
gradientQ(x) == IF x < 0 THEN 3 ELSE IF x = 0 THEN 2 ELSE 1

\* updateWeightsBatch, batch_size == 1 (lines 312-325, 344-352)
UpdateSingle(M, seen, u, i, j) ==
    LET x_uij == SumOver([s \in Items |-> M[i][s] - M[j][s]], seen[u])
        gradient == gradientQ(x_uij)
        S1 == AddCells(M, {<<i, s>> : s \in seen[u]}, gradient)
        S2 == SetCells(S1, {<<i, i>>}, 0)
        S3 == AddCells(S2, {<<j, s>> : s \in seen[u]}, 0 - gradient)
    IN SetCells(S3, {<<j, j>>}, 0)

\* updateWeightsBatch, batch_size > 1 (lines 331-341, 356-372); the unit
\* learning_rate / (4 * batch_size) turns the batch mean into the sum
UpdateMany(M, urm, u, i, j) ==
    LET B == DOMAIN u
        x_uij == [k \in B |-> SumOver([s \in Items |-> M[i[k]][s] - M[j[k]][s]], MaskItems(urm, u[k]))]
        gradient == SumOver([k \in B |-> gradientQ(x_uij[k])], B)
        itemsToUpdate == UNION {MaskItems(urm, u[k]) : k \in B}
        S1 == AddCells(M, {<<i[k], s>> : k \in B, s \in itemsToUpdate}, gradient)
        S2 == SetCells(S1, {<<i[k], i[k]>> : k \in B}, 0)
        S3 == AddCells(S2, {<<j[k], s>> : k \in B, s \in itemsToUpdate}, 0 - gradient)
    IN SetCells(S3, {<<j[k], j[k]>> : k \in B}, 0)

updateWeightsBatch(M, urm, seen, bs, u, i, j) ==
    IF bs = 1 THEN UpdateSingle(M, seen, u[1], i[1], j[1])
    ELSE UpdateMany(M, urm, u, i, j)

----------------------------------------------------------------------------
(* Exported similarity: an attribute is unset, a view of S.T that shares    *)
(* the storage of S, or a matrix of its own; val is the value it was given. *)

Unset == [kind |-> "unset", val |-> Zeros]
ViewOfST(M) == [kind |-> "view", val |-> Transpose(M)]
OwnMatrix(M) == [kind |-> "own", val |-> M]

\* the matrix a reader of the attribute sees now
Read(attr, M) == IF attr.kind = "view" THEN Transpose(M) ELSE attr.val

NoRec == [called |-> FALSE, user_id |-> 0, at |-> [none |-> TRUE, v |-> 0],
          exclude_seen |-> FALSE, status |-> "none", used |-> Zeros, ranking |-> <<>>]
NoTk == [stage |-> "none", M |-> Zeros, k |-> 0, ndarray |-> FALSE, out |-> Zeros, arg |-> Zeros]

----------------------------------------------------------------------------
(* Construction and fit *)

\* SLIM_BPR_Python.__init__: S is a zero ndarray, or a zero csr_matrix when
\* sparse_weights is set; no similarity has been exported
Init ==
    /\ URM_train \in URMs
    /\ sparse_weights \in BOOLEAN
    /\ S_type = IF sparse_weights THEN "csr" ELSE "ndarray"
    /\ S = Zeros
    /\ W = Unset
    /\ W_sparse = Unset
    /\ eligibleUsers = {}
    /\ userSeenItems = [u \in Users |-> {}]
    /\ topK = PyFalse
    /\ batch_size = 0
    /\ epochs = 0
    /\ currentEpoch = 0
    /\ totalNumberOfBatch = 0
    /\ numCurrentBatch = 0
    /\ user_id_list = <<>>
    /\ pos_item_id_list = <<>>
    /\ neg_item_id_list = <<>>
    /\ sample_index = 0
    /\ neg_item_id = -1
    /\ pc = "constructed"
    /\ error = "none"
    /\ rec = NoRec
    /\ tk = NoTk

\* initializeFastSampling: the users with an interaction above the threshold
\* and, for each, the items of those interactions
initializeFastSampling ==
    /\ eligibleUsers' = {u \in Users : URM_train_positive(URM_train, u) # {}}
    /\ userSeenItems' = [u \in Users |-> URM_train_positive(URM_train, u)]

\* fit_alreadyInitialized, lines 410-419
TopKNotValid(k) == PyNe(k, PyFalse) /\ PyLt(k, 1)

\* fit: initializeFastSampling, then fit_alreadyInitialized up to its loop
Fit(ep, bs, k) ==
    /\ pc = "constructed"
    /\ initializeFastSampling
    /\ IF TopKNotValid(k)
       THEN /\ pc' = "error"
            /\ error' = "ValueError: TopK not valid"
            /\ UNCHANGED <<topK, batch_size, epochs>>
       ELSE /\ topK' = k
            /\ batch_size' = bs
            /\ epochs' = ep
            /\ pc' = "epoch_loop"
            /\ error' = error
    /\ UNCHANGED <<URM_train, sparse_weights, S_type, S, W, W_sparse, currentEpoch,
                   totalNumberOfBatch, numCurrentBatch, user_id_list, pos_item_id_list,
                   neg_item_id_list, sample_index, neg_item_id, rec, tk>>

\* for currentEpoch in range(epochs): the loop is over
FitReturn ==
    /\ pc = "epoch_loop"
    /\ currentEpoch >= epochs
    /\ pc' = "fitted"
    /\ UNCHANGED <<URM_train, sparse_weights, S_type, S, W, W_sparse, eligibleUsers,
                   userSeenItems, topK, batch_size, epochs, currentEpoch,
                   totalNumberOfBatch, numCurrentBatch, user_id_list, pos_item_id_list,
                   neg_item_id_list, sample_index, neg_item_id, error, rec, tk>>

\* currentEpoch == 0: only updateSimilarityMatrix runs
FitEpochZero ==
    /\ pc = "epoch_loop"
    /\ currentEpoch < epochs
    /\ currentEpoch = 0
    /\ pc' = "export"
    /\ UNCHANGED <<URM_train, sparse_weights, S_type, S, W, W_sparse, eligibleUsers,
                   userSeenItems, topK, batch_size, epochs, currentEpoch,
                   totalNumberOfBatch, numCurrentBatch, user_id_list, pos_item_id_list,
                   neg_item_id_list, sample_index, neg_item_id, error, rec, tk>>

\* currentEpoch > 0 and batch_size > 0: epochIteration, lines 485-493
EpochIterationBegin ==
    /\ pc = "epoch_loop"
    /\ currentEpoch < epochs
    /\ currentEpoch > 0
    /\ batch_size > 0
    /\ totalNumberOfBatch' = (Nnz(URM_mask(URM_train)) \div batch_size) + 1
    /\ numCurrentBatch' = 0
    /\ pc' = "sample"
    /\ UNCHANGED <<URM_train, sparse_weights, S_type, S, W, W_sparse, eligibleUsers,
                   userSeenItems, topK, batch_size, epochs, currentEpoch,
                   user_id_list, pos_item_id_list, neg_item_id_list, sample_index,
                   neg_item_id, error, rec, tk>>

----------------------------------------------------------------------------
(* sampleBatch *)

\* line 204: np.random.choice(eligibleUsers, size=batch_size), which raises
\* on an empty population
SampleUsers ==
    /\ pc = "sample"
    /\ IF eligibleUsers = {}
       THEN /\ pc' = "error"
            /\ error' = "ValueError: a must be non-empty"
            /\ UNCHANGED <<user_id_list, pos_item_id_list, neg_item_id_list, sample_index>>
       ELSE /\ \E ul \in [1..batch_size -> eligibleUsers] : user_id_list' = ul
            /\ pos_item_id_list' = <<>>
            /\ neg_item_id_list' = <<>>
            /\ sample_index' = 0
            /\ pc' = "pos"
            /\ error' = error
    /\ UNCHANGED <<URM_train, sparse_weights, S_type, S, W, W_sparse, eligibleUsers,
                   userSeenItems, topK, batch_size, epochs, currentEpoch,
                   totalNumberOfBatch, numCurrentBatch, neg_item_id, rec, tk>>

\* line 211: the positive item of the sample
ChoosePos ==
    /\ pc = "pos"
    /\ \E p \in userSeenItems[user_id_list[sample_index + 1]] :
          pos_item_id_list' = Append(pos_item_id_list, p)
    /\ pc' = "neg"
    /\ UNCHANGED <<URM_train, sparse_weights, S_type, S, W, W_sparse, eligibleUsers,
                   userSeenItems, topK, batch_size, epochs, currentEpoch,
                   totalNumberOfBatch, numCurrentBatch, user_id_list, neg_item_id_list,
                   sample_index, neg_item_id, error, rec, tk>>

\* lines 217-222: one round of the rejection loop, with the drawn item it
DrawNeg(it) ==
    /\ pc = "neg"
    /\ neg_item_id' = it
    /\ IF it \notin userSeenItems[user_id_list[sample_index + 1]]
       THEN /\ neg_item_id_list' = Append(neg_item_id_list, it)
            /\ sample_index' = sample_index + 1
            /\ pc' = IF sample_index + 1 = batch_size THEN "update" ELSE "pos"
       ELSE UNCHANGED <<neg_item_id_list, sample_index, pc>>
    /\ UNCHANGED <<URM_train, sparse_weights, S_type, S, W, W_sparse, eligibleUsers,
                   userSeenItems, topK, batch_size, epochs, currentEpoch,
                   totalNumberOfBatch, numCurrentBatch, user_id_list, pos_item_id_list,
                   error, rec, tk>>

----------------------------------------------------------------------------
(* Training step, end of epoch, export *)

\* epochIteration, lines 497-501 and the loop head of line 493.  On an
\* ndarray the update is applied in place.  On a csr_matrix the in-place
\* additions of lines 348-371 are the sparse library's: it refuses them
\* (adding a dense value to a sparse selection) or applies them.
UpdateWeights ==
    /\ pc = "update"
    /\ \/ /\ S' = updateWeightsBatch(S, URM_train, userSeenItems, batch_size,
                                     user_id_list, pos_item_id_list, neg_item_id_list)
          /\ numCurrentBatch' = numCurrentBatch + 1
          /\ pc' = IF numCurrentBatch + 1 = totalNumberOfBatch THEN "zero_diag" ELSE "sample"
          /\ error' = error
       \/ /\ S_type = "csr"
          /\ pc' = "error"
          /\ error' = "NotImplementedError: sparse in-place add"
          /\ UNCHANGED <<S, numCurrentBatch>>
    /\ user_id_list' = <<>>
    /\ pos_item_id_list' = <<>>
    /\ neg_item_id_list' = <<>>
    /\ UNCHANGED <<URM_train, sparse_weights, S_type, W, W_sparse, eligibleUsers,
                   userSeenItems, topK, batch_size, epochs, currentEpoch,
                   totalNumberOfBatch, sample_index, neg_item_id, rec, tk>>

\* line 525
ZeroDiagonal ==
    /\ pc = "zero_diag"
    /\ S' = SetCells(S, {<<k, k>> : k \in Items}, 0)
    /\ pc' = "export"
    /\ UNCHANGED <<URM_train, sparse_weights, S_type, W, W_sparse, eligibleUsers,
                   userSeenItems, topK, batch_size, epochs, currentEpoch,
                   totalNumberOfBatch, numCurrentBatch, user_id_list, pos_item_id_list,
                   neg_item_id_list, sample_index, neg_item_id, error, rec, tk>>

\* updateSimilarityMatrix, called for epoch 0 (line 433) and at the end of
\* epochIteration (line 527); the loop of fit then moves to the next epoch.
\* S.T does not copy.  With topK, similarityMatrixTopK receives S.T with its
\* default inplace=True: for an ndarray the zeroing of line 77 is done on the
\* storage of S and the result is copied into a csr_matrix; for a csr_matrix
\* a new matrix is built.
UpdateSimilarityMatrix ==
    /\ pc = "export"
    /\ IF PyNe(topK, PyFalse)
       THEN /\ sparse_weights' = TRUE
            /\ \E out \in {similarityMatrixTopK(Transpose(S), topK.v, idx, S_type = "ndarray") :
                                idx \in ArgSortColumns(Transpose(S))} :
                    /\ W_sparse' = OwnMatrix(out)
                    /\ S' = IF S_type = "ndarray" THEN Transpose(out) ELSE S
            /\ W' = W
       ELSE IF sparse_weights
            THEN /\ W_sparse' = ViewOfST(S)
                 /\ UNCHANGED <<sparse_weights, S, W>>
            ELSE /\ W' = ViewOfST(S)
                 /\ UNCHANGED <<sparse_weights, S, W_sparse>>
    /\ currentEpoch' = currentEpoch + 1
    /\ pc' = "epoch_loop"
    /\ UNCHANGED <<URM_train, S_type, eligibleUsers, userSeenItems, topK, batch_size,
                   epochs, totalNumberOfBatch, numCurrentBatch, user_id_list,
                   pos_item_id_list, neg_item_id_list, sample_index, neg_item_id,
                   error, rec, tk>>

----------------------------------------------------------------------------
(* recommend *)

\* a score is finite or -inf
Finite(x) == [ninf |-> FALSE, v |-> x]
NegInf == [ninf |-> TRUE, v |-> 0]
ScoreLeq(a, b) == a.ninf \/ (~b.ninf /\ a.v <= b.v)

AtNone == [none |-> TRUE, v |-> 0]
AtValues == {AtNone} \cup {[none |-> FALSE, v |-> n] : n \in 0..(n_items + 1)}

\* line 534: user_profile.dot(W_sparse)
Scores(urm, user_id, Wm) ==
    [c \in Items |-> Finite(SumOver([r \in Items |-> urm[user_id][r] * Wm[r][c]], Items))]

\* filter_seen: scores[user_profile] = -inf on the stored items of the user
filter_seen(urm, user_id, scores) ==
    [c \in Items |-> IF c \in StoredItems(urm, user_id) THEN NegInf ELSE scores[c]]

\* scores.argsort()[::-1]: an ascending order of the scores, reversed
Rankings(scores) ==
    {p \in Perms : \A a, b \in 1..n_items : a < b => ScoreLeq(scores[p[b]], scores[p[a]])}

\* ranking[:at] for at = None or at >= 0
PySliceTo(ranking, at) ==
    IF at.none THEN ranking ELSE SubSeq(ranking, 1, Min(at.v, Len(ranking)))

\* one call on the fitted model
Recommend(user_id, at, exclude_seen) ==
    /\ pc = "fitted"
    /\ ~rec.called
    /\ IF W_sparse.kind = "unset"
       THEN rec' = [called |-> TRUE, user_id |-> user_id, at |-> at,
                    exclude_seen |-> exclude_seen, status |-> "AttributeError: W_sparse",
                    used |-> Zeros, ranking |-> <<>>]
       ELSE LET Wm == Read(W_sparse, S)
                raw == Scores(URM_train, user_id, Wm)
                scores == IF exclude_seen THEN filter_seen(URM_train, user_id, raw) ELSE raw
            IN \E result \in {PySliceTo(ranking, at) : ranking \in Rankings(scores)} :
                  rec' = [called |-> TRUE, user_id |-> user_id, at |-> at,
                          exclude_seen |-> exclude_seen, status |-> "ok",
                          used |-> Wm, ranking |-> result]
    /\ UNCHANGED <<URM_train, sparse_weights, S_type, S, W, W_sparse, eligibleUsers,
                   userSeenItems, topK, batch_size, epochs, currentEpoch,
                   totalNumberOfBatch, numCurrentBatch, user_id_list, pos_item_id_list,
                   neg_item_id_list, sample_index, neg_item_id, pc, error, tk>>

----------------------------------------------------------------------------

Next ==
    \/ \E ep \in 1..MaxEpochs, bs \in 1..MaxBatch, k \in TopKValues : Fit(ep, bs, k)
    \/ FitReturn
    \/ FitEpochZero
    \/ EpochIterationBegin
    \/ SampleUsers
    \/ ChoosePos
    \/ \E it \in Items : DrawNeg(it)
    \/ UpdateWeights
    \/ ZeroDiagonal
    \/ UpdateSimilarityMatrix
    \/ \E u \in Users, at \in AtValues, ex \in BOOLEAN : Recommend(u, at, ex)

Spec == Init /\ [][Next]_vars

\* every step of the running program is eventually taken, and the random
\* source of line 218 draws every item index again and again
FairSpec ==
    /\ Init
    /\ [][Next]_vars
    /\ WF_vars(Next)
    /\ \A it \in Items : SF_vars(DrawNeg(it))

----------------------------------------------------------------------------
(* similarityMatrixTopK as a function of its arguments *)

TkValues == (-1)..MaxWeight
TkMatrices == {m \in [Items -> [Items -> TkValues]] :
                  Cardinality({p \in Items \X Items : m[p[1]][p[2]] # 0}) <= MaxNonZero}

InitTopK ==
    /\ URM_train = [u \in Users |-> [it \in Items |-> 0]]
    /\ sparse_weights = FALSE
    /\ S_type = "ndarray"
    /\ S = Zeros
    /\ W = Unset
    /\ W_sparse = Unset
    /\ eligibleUsers = {}
    /\ userSeenItems = [u \in Users |-> {}]
    /\ topK = PyFalse
    /\ batch_size = 0
    /\ epochs = 0
    /\ currentEpoch = 0
    /\ totalNumberOfBatch = 0
    /\ numCurrentBatch = 0
    /\ user_id_list = <<>>
    /\ pos_item_id_list = <<>>
    /\ neg_item_id_list = <<>>
    /\ sample_index = 0
    /\ neg_item_id = -1
    /\ pc = "topk"
    /\ error = "none"
    /\ rec = NoRec
    /\ \E m \in TkMatrices, k \in 1..(n_items + 1), b \in BOOLEAN :
          tk = [stage |-> "in", M |-> m, k |-> k, ndarray |-> b, out |-> Zeros, arg |-> m]

\* one call similarityMatrixTopK(M, k=k) on an ndarray or a sparse matrix;
\* arg is the caller's matrix after the call (inplace=True)
ApplyTopK ==
    /\ pc = "topk"
    /\ tk.stage = "in"
    /\ \E out \in {similarityMatrixTopK(tk.M, tk.k, idx, tk.ndarray) : idx \in ArgSortColumns(tk.M)} :
         tk' = [tk EXCEPT !.stage = "out", !.out = out,
                          !.arg = IF tk.ndarray THEN out ELSE tk.M]
    /\ UNCHANGED <<URM_train, sparse_weights, S_type, S, W, W_sparse, eligibleUsers,
                   userSeenItems, topK, batch_size, epochs, currentEpoch,
                   totalNumberOfBatch, numCurrentBatch, user_id_list, pos_item_id_list,
                   neg_item_id_list, sample_index, neg_item_id, pc, error, rec>>

NextTopK == ApplyTopK

SpecTopK == InitTopK /\ [][NextTopK]_vars

----------------------------------------------------------------------------
(* Properties *)

\* the configuration fit accepts by its contract: topK False or a positive integer
ValidTopK == topK = PyFalse \/ (~topK.isbool /\ topK.v >= 1)

DiagonalZero(M) == \A k \in Items : M[k][k] = 0
OffDiagonalChanged(M) == \E r, c \in Items : r # c /\ M[r][c] # 0

\* C1: every triple (u, pos, neg) returned by sampleBatch has pos in the
\* positive-mask items of u (value >= positive_threshold), neg outside them,
\* and neg a valid item index
C1_SampledTriples ==
    (pc = "update" /\ ValidTopK) =>
        \A k \in 1..batch_size :
            /\ pos_item_id_list[k] \in MaskItems(URM_train, user_id_list[k])
            /\ neg_item_id_list[k] \notin MaskItems(URM_train, user_id_list[k])
            /\ neg_item_id_list[k] \in Items

\* C2: after every completed epochIteration, for every batch size and every
\* sampled sequence, the diagonal of S is zero
C2_DiagonalZeroAfterEpoch ==
    (pc \in {"epoch_loop", "fitted"} /\ currentEpoch >= 2) => DiagonalZero(S)

\* a fit with batches of two or more samples has completed a training epoch
\* that left S different from its initial value
C2_Witness ==
    /\ pc = "fitted"
    /\ currentEpoch >= 2
    /\ batch_size >= 2
    /\ S # Zeros
    /\ DiagonalZero(S)

\* C3: similarityMatrixTopK(M, k), k >= 1, keeps in each column exactly
\* min(k, non-zeros of the column) non-zero values, each at its position and
\* one of the k largest of the column's non-zero values; the rest is zero
C3_TopKColumns ==
    tk.stage = "out" =>
        \A c \in Items :
            LET nzIn == {r \in Items : tk.M[r][c] # 0}
                nzOut == {r \in Items : tk.out[r][c] # 0}
            IN /\ Cardinality(nzOut) = Min(tk.k, Cardinality(nzIn))
               /\ \A r \in nzOut :
                     /\ tk.out[r][c] = tk.M[r][c]
                     /\ Cardinality({q \in nzIn : tk.M[q][c] > tk.M[r][c]}) < tk.k

\* C4: recommend with exclude_seen returns no item the user has an
\* interaction with, for every value of at
C4_NoSeenItemRecommended ==
    (rec.called /\ rec.status = "ok" /\ rec.exclude_seen /\ ValidTopK) =>
        Range(rec.ranking) \cap StoredItems(URM_train, rec.user_id) = {}

\* C5: a fit that got past its validation (it did not end in the
\* configuration error) was given topK = False or a positive integer
C5_InvalidTopKRejected ==
    pc \notin {"constructed", "error"} => ValidTopK

\* C6: every call of sampleBatch ends, by returning a batch or by an error
InSampleBatch == pc \in {"sample", "pos", "neg"}
C6_SampleBatchEnds == (InSampleBatch /\ ValidTopK) ~> ~InSampleBatch

\* C7: the exported similarity, read through W or W_sparse, changes only in
\* a step of updateSimilarityMatrix
C7_ExportIsSnapshot ==
    [][(ValidTopK /\ (Read(W', S') # Read(W, S) \/ Read(W_sparse', S') # Read(W_sparse, S)))
          => pc = "export"]_vars

\* C8: after a fit with a valid configuration, recommend succeeds and the
\* matrix it reads is the one the last updateSimilarityMatrix exported
LastExport == IF W.kind # "unset" THEN W.val ELSE W_sparse.val
C8_RecommendReadsLastExport ==
    (rec.called /\ ValidTopK) => (rec.status = "ok" /\ rec.used = LastExport)

\* C9 as stated: fit with epochs = 1, batch_size = 1, topK disabled, on a
\* matrix with a user that has a positive interaction and an item without
\* interaction, ends with a zero diagonal and a changed off-diagonal entry
HasTrainableUser ==
    \E u \in Users : MaskItems(URM_train, u) # {} /\ StoredItems(URM_train, u) # Items
C10_ExportLeavesS ==
    [][(pc = "export" /\ ValidTopK) => S' = S]_vars

====
